---- MODULE Spec2Model ----
(***************************************************************************)
(* Model of fiona/_geometry.pyx: the GEOMETRY_TYPES registry, GeomBuilder  *)
(* (OGR handle -> GeoJSON-like tree), OGRGeomBuilder (tree -> OGR handle), *)
(* build_wkb and geometryRT, over a model of the OGR C API calls the       *)
(* module makes.                                                           *)
(*                                                                         *)
(* A type code is the pair <<b, c>>: b is bit 0x80000000 of the unsigned   *)
(* 32-bit code (the 3D flag) and c the remaining 31 bits, so that the code *)
(* is b * 2^31 + c.  A handle is a positive index into the engine's heap;  *)
(* NULL is 0.  Every engine call is recorded in the engine's log.          *)
(***************************************************************************)
EXTENDS Integers, Sequences, FiniteSets, TLC

VARIABLES pc, arg, out

vars == <<pc, arg, out>>

\* ------------------------------------------------------------- bounds
MaxCoord == 1
MaxArity == 4
MaxPts == 2
MaxParts == 2

\* --------------------------------------------------------------- trees
\* A tree is the dict {'type': t, 'coordinates': c}, or for a
\* GeometryCollection {'type': t, 'geometries': g}, written as the pair of
\* its type and its other value.
Tree(type, coordinates) == <<type, coordinates>>

Collection(geometries) == <<"GeometryCollection", geometries>>

TypeOf(tree) == tree[1]

\* whether the dict has the key
Has(tree, key) == key = "type" \/ (key = "geometries") = (tree[1] = "GeometryCollection")

\* geometry.get(key), geometry[key]
Get(tree, key) == IF key = "type" THEN tree[1] ELSE tree[2]

\* ------------------------------------------------------- type registry
NULL == 0

GEOMETRY_TYPES ==
  ( <<0, 0>>   :> "Unknown" @@
    <<0, 1>>   :> "Point" @@
    <<0, 2>>   :> "LineString" @@
    <<0, 3>>   :> "Polygon" @@
    <<0, 4>>   :> "MultiPoint" @@
    <<0, 5>>   :> "MultiLineString" @@
    <<0, 6>>   :> "MultiPolygon" @@
    <<0, 7>>   :> "GeometryCollection" @@
    <<0, 100>> :> "None" @@
    <<0, 101>> :> "LinearRing" @@
    <<1, 1>>   :> "3D Point" @@
    <<1, 2>>   :> "3D LineString" @@
    <<1, 3>>   :> "3D Polygon" @@
    <<1, 4>>   :> "3D MultiPoint" @@
    <<1, 5>>   :> "3D MultiLineString" @@
    <<1, 6>>   :> "3D MultiPolygon" @@
    <<1, 7>>   :> "3D GeometryCollection" )

\* dict((v, k) for k, v in GEOMETRY_TYPES.iteritems())
GEOJSON2OGR_GEOMETRY_TYPES ==
  [v \in {GEOMETRY_TYPES[k] : k \in DOMAIN GEOMETRY_TYPES} |->
     CHOOSE k \in DOMAIN GEOMETRY_TYPES : GEOMETRY_TYPES[k] = v]

\* code & (~0x80000000)
MaskOff3D(code) == <<0, code[2]>>

\* faulty variant of nameForCode: the 3D bit is not masked off
nameForCode_unmasked(code) ==
  IF code \in DOMAIN GEOMETRY_TYPES
  THEN [err |-> "", name |-> GEOMETRY_TYPES[code]]
  ELSE [err |-> "KeyError", name |-> ""]

\* GEOMETRY_TYPES[self.code & (~0x80000000)]; a missing key is a KeyError
nameForCode(code) ==
  IF MaskOff3D(code) \in DOMAIN GEOMETRY_TYPES
  THEN [err |-> "", name |-> GEOMETRY_TYPES[MaskOff3D(code)]]
  ELSE [err |-> "KeyError", name |-> ""]

\* faulty variant of codeForName: the 3D names give their base codes
codeForName_masked(name) ==
  IF name \in DOMAIN GEOJSON2OGR_GEOMETRY_TYPES
  THEN [err |-> "", code |-> MaskOff3D(GEOJSON2OGR_GEOMETRY_TYPES[name])]
  ELSE [err |-> "KeyError", code |-> <<0, 0>>]

\* GEOJSON2OGR_GEOMETRY_TYPES[name]; a missing key is a KeyError
codeForName(name) ==
  IF name \in DOMAIN GEOJSON2OGR_GEOMETRY_TYPES
  THEN [err |-> "", code |-> GEOJSON2OGR_GEOMETRY_TYPES[name]]
  ELSE [err |-> "KeyError", code |-> <<0, 0>>]

\* ---------------------------------------------------- the OGR engine
\* Engine state: heap (one record per handle ever created), log of calls,
\* number of OGR_G_CreateGeometry calls so far, the call that the engine
\* refuses (0: none), and whether attaching a 3D child makes the parent 3D.
NewEngine(failAt, homog) ==
  [heap |-> <<>>, log |-> <<>>, creates |-> 0, failAt |-> failAt, homog |-> homog]

Ev(op, h, a) == [op |-> op, h |-> h, a |-> a]

CreatableCodes == {<<0, 1>>, <<0, 2>>, <<0, 3>>, <<0, 4>>, <<0, 5>>, <<0, 6>>,
                   <<0, 7>>, <<0, 101>>}

\* OGR_G_CreateGeometry: a fresh empty 2D geometry, or NULL
OGR_G_CreateGeometry(eng, code) ==
  LET k == eng.creates + 1
      h == Len(eng.heap) + 1
  IN IF k = eng.failAt \/ code \notin CreatableCodes
     THEN [eng |-> [eng EXCEPT !.creates = k], h |-> NULL]
     ELSE [eng |-> [eng EXCEPT !.creates = k,
                               !.heap = Append(@, [code |-> code[2], dim |-> 2,
                                                   pts |-> <<>>, kids |-> <<>>,
                                                   parent |-> NULL, alive |-> TRUE]),
                               !.log = Append(@, Ev("create", h, code[2]))],
           h |-> h]

wkbPoint == 1

\* a Point geometry holds one point: adding sets it; other kinds append
PutPoint(g, p) == IF g.code = wkbPoint THEN <<p>> ELSE Append(g.pts, p)

OGR_G_AddPoint_2D(eng, h, x, y) ==
  [eng EXCEPT !.heap[h].pts = PutPoint(eng.heap[h], <<x, y, 0>>),
              !.log = Append(@, Ev("addPoint2D", h, <<x, y>>))]

OGR_G_AddPoint(eng, h, x, y, z) ==
  [eng EXCEPT !.heap[h].pts = PutPoint(eng.heap[h], <<x, y, z>>),
              !.heap[h].dim = 3,
              !.log = Append(@, Ev("addPoint3D", h, <<x, y, z>>))]

\* closes the ring: appends the first point unless first and last coincide
OGR_G_CloseRings(eng, h) ==
  LET p == eng.heap[h].pts
      e == [eng EXCEPT !.log = Append(@, Ev("closeRing", h, 0))]
  IN IF Len(p) < 2 \/ p[1] = p[Len(p)]
     THEN e
     ELSE [e EXCEPT !.heap[h].pts = Append(p, p[1])]

\* the child becomes owned by the parent
OGR_G_AddGeometryDirectly(eng, parent, child) ==
  [eng EXCEPT !.heap[parent].kids = Append(@, child),
              !.heap[parent].dim = IF eng.homog /\ eng.heap[child].dim = 3 THEN 3 ELSE @,
              !.heap[child].parent = parent,
              !.log = Append(@, Ev("addChildOwned", parent, child))]

RECURSIVE Owned(_, _)
\* the handle and every handle it owns, directly or not
Owned(heap, h) ==
  {h} \cup UNION {Owned(heap, heap[h].kids[i]) : i \in 1..Len(heap[h].kids)}

\* destroying a geometry destroys the geometries it owns
OGR_G_DestroyGeometry(eng, h) ==
  [eng EXCEPT !.heap = [i \in 1..Len(eng.heap) |->
                          IF i \in Owned(eng.heap, h)
                          THEN [eng.heap[i] EXCEPT !.alive = FALSE]
                          ELSE eng.heap[i]],
              !.log = Append(@, Ev("destroy", h, 0))]

OGR_G_GetGeometryType(eng, h) ==
  <<IF eng.heap[h].dim = 3 THEN 1 ELSE 0, eng.heap[h].code>>

OGR_G_GetCoordinateDimension(eng, h) == eng.heap[h].dim

OGR_G_GetPointCount(eng, h) == Len(eng.heap[h].pts)

OGR_G_GetGeometryCount(eng, h) == Len(eng.heap[h].kids)

OGR_G_GetGeometryRef(eng, h, j) == eng.heap[h].kids[j]


\* ------------------------------------------------------ OGRGeomBuilder
\* Every builder returns [eng, h, err]: err = "" and h the new handle, or
\* err the exception raised and h = NULL (the "except NULL" return).
Ok(eng, h) == [eng |-> eng, h |-> h, err |-> ""]
Raise(eng, err) == [eng |-> eng, h |-> NULL, err |-> err]

\* the value of K at the result r of a call, r computed once
Call(r, K(_)) == CHOOSE v \in {K(x) : x \in {r}} : TRUE

\* a statement after a call: an exception raised by the call leaves the
\* calling function at once, otherwise the function goes on with K
Then(r, K(_)) == CHOOSE v \in {IF x.err # "" THEN x ELSE K(x) : x \in {r}} : TRUE

OGRGeomBuilder_createOgrGeometry(eng, geom_type) ==
  Call(OGR_G_CreateGeometry(eng, geom_type),
       LAMBDA c : IF c.h = NULL THEN Raise(c.eng, "Exception") ELSE Ok(c.eng, c.h))

\* faulty variant of _addPointToGeometry: x and y are added whatever else follows
OGRGeomBuilder_addPointToGeometry_always2D(eng, cogr_geometry, coordinate) ==
  IF Len(coordinate) >= 2
  THEN Ok(OGR_G_AddPoint_2D(eng, cogr_geometry, coordinate[1], coordinate[2]),
          cogr_geometry)
  ELSE Raise(eng, "ValueError")

\* len(coordinate) == 2: x, y = coordinate; else: x, y, z = coordinate[:3],
\* a ValueError when the slice has fewer than three values
OGRGeomBuilder_addPointToGeometry(eng, cogr_geometry, coordinate) ==
  IF Len(coordinate) = 2
  THEN Ok(OGR_G_AddPoint_2D(eng, cogr_geometry, coordinate[1], coordinate[2]),
          cogr_geometry)
  ELSE IF Len(coordinate) >= 3
       THEN Ok(OGR_G_AddPoint(eng, cogr_geometry, coordinate[1], coordinate[2],
                              coordinate[3]), cogr_geometry)
       ELSE Raise(eng, "ValueError")

OGRGeomBuilder_buildPoint(eng, coordinates) ==
  Then(OGRGeomBuilder_createOgrGeometry(eng, GEOJSON2OGR_GEOMETRY_TYPES["Point"]),
       LAMBDA c :
         Then(OGRGeomBuilder_addPointToGeometry(c.eng, c.h, coordinates),
              LAMBDA a : Ok(a.eng, c.h)))

\* for coordinate in coordinates: self._addPointToGeometry(...)
AddPoints(eng, cogr_geometry, coordinates) ==
  LET loop[i \in 0..Len(coordinates)] ==
        IF i = 0 THEN Ok(eng, cogr_geometry)
        ELSE Then(loop[i - 1],
                  LAMBDA prev :
                    OGRGeomBuilder_addPointToGeometry(prev.eng, cogr_geometry,
                                                      coordinates[i]))
  IN loop[Len(coordinates)]

OGRGeomBuilder_buildLineString(eng, coordinates) ==
  Then(OGRGeomBuilder_createOgrGeometry(eng, GEOJSON2OGR_GEOMETRY_TYPES["LineString"]),
       LAMBDA c : AddPoints(c.eng, c.h, coordinates))

\* faulty variant of _buildLinearRing: OGR_G_CloseRings is not called
OGRGeomBuilder_buildLinearRing_noClose(eng, coordinates) ==
  Then(OGRGeomBuilder_createOgrGeometry(eng, GEOJSON2OGR_GEOMETRY_TYPES["LinearRing"]),
       LAMBDA c : AddPoints(c.eng, c.h, coordinates))

OGRGeomBuilder_buildLinearRing(eng, coordinates) ==
  Then(OGRGeomBuilder_createOgrGeometry(eng, GEOJSON2OGR_GEOMETRY_TYPES["LinearRing"]),
       LAMBDA c :
         Then(AddPoints(c.eng, c.h, coordinates),
              LAMBDA a : Ok(OGR_G_CloseRings(a.eng, c.h), c.h)))

\* faulty variant of _buildPolygon: the rings are built and not attached
OGRGeomBuilder_buildPolygon_noAttach(eng, coordinates) ==
  LET loop[i \in 0..Len(coordinates)] ==
        IF i = 0
        THEN OGRGeomBuilder_createOgrGeometry(eng, GEOJSON2OGR_GEOMETRY_TYPES["Polygon"])
        ELSE Then(loop[i - 1],
                  LAMBDA c :
                    Then(OGRGeomBuilder_buildLinearRing(c.eng, coordinates[i]),
                         LAMBDA r : Ok(r.eng, c.h)))
  IN loop[Len(coordinates)]

OGRGeomBuilder_buildPolygon(eng, coordinates) ==
  LET loop[i \in 0..Len(coordinates)] ==
        IF i = 0
        THEN OGRGeomBuilder_createOgrGeometry(eng, GEOJSON2OGR_GEOMETRY_TYPES["Polygon"])
        ELSE Then(loop[i - 1],
                  LAMBDA c :
                    Then(OGRGeomBuilder_buildLinearRing(c.eng, coordinates[i]),
                         LAMBDA r : Ok(OGR_G_AddGeometryDirectly(r.eng, c.h, r.h), c.h)))
  IN loop[Len(coordinates)]

OGRGeomBuilder_buildMultiPoint(eng, coordinates) ==
  LET loop[i \in 0..Len(coordinates)] ==
        IF i = 0
        THEN OGRGeomBuilder_createOgrGeometry(eng, GEOJSON2OGR_GEOMETRY_TYPES["MultiPoint"])
        ELSE Then(loop[i - 1],
                  LAMBDA c :
                    Then(OGRGeomBuilder_buildPoint(c.eng, coordinates[i]),
                         LAMBDA r : Ok(OGR_G_AddGeometryDirectly(r.eng, c.h, r.h), c.h)))
  IN loop[Len(coordinates)]

OGRGeomBuilder_buildMultiLineString(eng, coordinates) ==
  LET loop[i \in 0..Len(coordinates)] ==
        IF i = 0
        THEN OGRGeomBuilder_createOgrGeometry(eng,
                                              GEOJSON2OGR_GEOMETRY_TYPES["MultiLineString"])
        ELSE Then(loop[i - 1],
                  LAMBDA c :
                    Then(OGRGeomBuilder_buildLineString(c.eng, coordinates[i]),
                         LAMBDA r : Ok(OGR_G_AddGeometryDirectly(r.eng, c.h, r.h), c.h)))
  IN loop[Len(coordinates)]

OGRGeomBuilder_buildMultiPolygon(eng, coordinates) ==
  LET loop[i \in 0..Len(coordinates)] ==
        IF i = 0
        THEN OGRGeomBuilder_createOgrGeometry(eng, GEOJSON2OGR_GEOMETRY_TYPES["MultiPolygon"])
        ELSE Then(loop[i - 1],
                  LAMBDA c :
                    Then(OGRGeomBuilder_buildPolygon(c.eng, coordinates[i]),
                         LAMBDA r : Ok(OGR_G_AddGeometryDirectly(r.eng, c.h, r.h), c.h)))
  IN loop[Len(coordinates)]

RECURSIVE OGRGeomBuilder_build(_, _)

OGRGeomBuilder_buildGeometryCollection(eng, coordinates) ==
  LET loop[i \in 0..Len(coordinates)] ==
        IF i = 0
        THEN OGRGeomBuilder_createOgrGeometry(eng,
                                              GEOJSON2OGR_GEOMETRY_TYPES["GeometryCollection"])
        ELSE Then(loop[i - 1],
                  LAMBDA c :
                    Then(OGRGeomBuilder_build(c.eng, coordinates[i]),
                         LAMBDA r : Ok(OGR_G_AddGeometryDirectly(r.eng, c.h, r.h), c.h)))
  IN loop[Len(coordinates)]

OGRGeomBuilder_build(eng, geometry) ==
  LET typename == TypeOf(geometry)
  IN CASE typename = "Point" ->
            OGRGeomBuilder_buildPoint(eng, Get(geometry, "coordinates"))
       [] typename = "LineString" ->
            OGRGeomBuilder_buildLineString(eng, Get(geometry, "coordinates"))
       [] typename = "LinearRing" ->
            OGRGeomBuilder_buildLinearRing(eng, Get(geometry, "coordinates"))
       [] typename = "Polygon" ->
            OGRGeomBuilder_buildPolygon(eng, Get(geometry, "coordinates"))
       [] typename = "MultiPoint" ->
            OGRGeomBuilder_buildMultiPoint(eng, Get(geometry, "coordinates"))
       [] typename = "MultiLineString" ->
            OGRGeomBuilder_buildMultiLineString(eng, Get(geometry, "coordinates"))
       [] typename = "MultiPolygon" ->
            OGRGeomBuilder_buildMultiPolygon(eng, Get(geometry, "coordinates"))
       [] typename = "GeometryCollection" ->
            OGRGeomBuilder_buildGeometryCollection(eng, Get(geometry, "geometries"))
       [] OTHER -> Raise(eng, "ValueError")

\* --------------------------------------------------------- GeomBuilder
\* Every method returns [eng, tree, err]: err = "" and the tree built, or
\* err the exception raised.  self is the builder's attributes
\* [code, geomtypename, ndims, geom], set by build.
Built(eng, tree) == [eng |-> eng, tree |-> tree, err |-> ""]
Fail(eng, err) == [eng |-> eng, tree |-> <<>>, err |-> err]

Read(eng, op, h, a) == [eng EXCEPT !.log = Append(@, Ev(op, h, a))]

\* faulty variant of _buildCoords: z is appended whatever self.ndims is
GeomBuilder_buildCoords_alwaysZ(eng, self, geom) ==
  IF geom = NULL THEN Fail(eng, "ValueError")
  ELSE LET npoints == OGR_G_GetPointCount(eng, geom)
       IN Call([i \in 1..npoints |-> eng.heap[geom].pts[i]],
               LAMBDA coords : Built(Read(eng, "getPoints", geom, coords), coords))

\* values = [x, y]; if self.ndims > 2: values.append(z)
GeomBuilder_buildCoords(eng, self, geom) ==
  IF geom = NULL THEN Fail(eng, "ValueError")
  ELSE LET npoints == OGR_G_GetPointCount(eng, geom)
       IN Call([i \in 1..npoints |->
                  IF self.ndims > 2
                  THEN eng.heap[geom].pts[i]
                  ELSE <<eng.heap[geom].pts[i][1], eng.heap[geom].pts[i][2]>>],
               LAMBDA coords : Built(Read(eng, "getPoints", geom, coords), coords))

\* self._buildCoords(self.geom)[0]: an IndexError when there is no point
GeomBuilder_buildPoint(eng, self) ==
  Then(GeomBuilder_buildCoords(eng, self, self.geom),
       LAMBDA c : IF Len(c.tree) = 0 THEN Fail(c.eng, "IndexError")
                  ELSE Built(c.eng, Tree("Point", c.tree[1])))

GeomBuilder_buildLineString(eng, self) ==
  Then(GeomBuilder_buildCoords(eng, self, self.geom),
       LAMBDA c : Built(c.eng, Tree("LineString", c.tree)))

GeomBuilder_buildLinearRing(eng, self) ==
  Then(GeomBuilder_buildCoords(eng, self, self.geom),
       LAMBDA c : Built(c.eng, Tree("LinearRing", c.tree)))

RECURSIVE GeomBuilder_build(_, _)

\* faulty variant of _buildParts: each part is put before the parts read so far
GeomBuilder_buildParts_reversed(eng, geom) ==
  IF geom = NULL THEN Fail(eng, "ValueError")
  ELSE LET n == OGR_G_GetGeometryCount(eng, geom)
           loop[j \in 0..n] ==
             IF j = 0 THEN Built(Read(eng, "getChildCount", geom, n), <<>>)
             ELSE Then(loop[j - 1],
                       LAMBDA prev :
                         LET part == OGR_G_GetGeometryRef(eng, geom, j)
                         IN Then(GeomBuilder_build(
                                   Read(prev.eng, "getChildRef", geom, part), part),
                                 LAMBDA b : Built(b.eng, <<b.tree>> \o prev.tree)))
       IN loop[n]

\* the parts of geom in index order, each decoded by a new GeomBuilder
GeomBuilder_buildParts(eng, geom) ==
  IF geom = NULL THEN Fail(eng, "ValueError")
  ELSE LET n == OGR_G_GetGeometryCount(eng, geom)
           loop[j \in 0..n] ==
             IF j = 0 THEN Built(Read(eng, "getChildCount", geom, n), <<>>)
             ELSE Then(loop[j - 1],
                       LAMBDA prev :
                         LET part == OGR_G_GetGeometryRef(eng, geom, j)
                         IN Then(GeomBuilder_build(
                                   Read(prev.eng, "getChildRef", geom, part), part),
                                 LAMBDA b : Built(b.eng, Append(prev.tree, b.tree))))
       IN loop[n]

\* [p['coordinates'] for p in parts]: a KeyError for a part without them
PartCoordinates(parts) ==
  IF \E i \in 1..Len(parts) : ~Has(parts[i], "coordinates")
  THEN [err |-> "KeyError", coordinates |-> <<>>]
  ELSE [err |-> "", coordinates |-> [i \in 1..Len(parts) |-> Get(parts[i], "coordinates")]]

Flattened(eng, self, typename) ==
  Then(GeomBuilder_buildParts(eng, self.geom),
       LAMBDA p :
         Call(PartCoordinates(p.tree),
              LAMBDA c : IF c.err # "" THEN Fail(p.eng, c.err)
                         ELSE Built(p.eng, Tree(typename, c.coordinates))))

GeomBuilder_buildPolygon(eng, self) == Flattened(eng, self, "Polygon")

GeomBuilder_buildMultiPoint(eng, self) == Flattened(eng, self, "MultiPoint")

GeomBuilder_buildMultiLineString(eng, self) == Flattened(eng, self, "MultiLineString")

GeomBuilder_buildMultiPolygon(eng, self) == Flattened(eng, self, "MultiPolygon")

GeomBuilder_buildGeometryCollection(eng, self) ==
  Then(GeomBuilder_buildParts(eng, self.geom),
       LAMBDA p : Built(p.eng, Collection(p.tree)))

\* getattr(self, '_build' + self.geomtypename)(): an AttributeError when the
\* class has no such method
GeomBuilder_build(eng, geom) ==
  IF geom = NULL THEN Fail(eng, "ValueError")
  ELSE LET etype == OGR_G_GetGeometryType(eng, geom)
           n == nameForCode(etype)
           self == [code |-> etype, geomtypename |-> n.name,
                    ndims |-> OGR_G_GetCoordinateDimension(eng, geom), geom |-> geom]
           e == Read(eng, "getGeometryType", geom, 0)
       IN IF n.err # "" THEN Fail(e, n.err)
          ELSE CASE n.name = "Point" -> GeomBuilder_buildPoint(e, self)
                 [] n.name = "LineString" -> GeomBuilder_buildLineString(e, self)
                 [] n.name = "LinearRing" -> GeomBuilder_buildLinearRing(e, self)
                 [] n.name = "Polygon" -> GeomBuilder_buildPolygon(e, self)
                 [] n.name = "MultiPoint" -> GeomBuilder_buildMultiPoint(e, self)
                 [] n.name = "MultiLineString" -> GeomBuilder_buildMultiLineString(e, self)
                 [] n.name = "MultiPolygon" -> GeomBuilder_buildMultiPolygon(e, self)
                 [] n.name = "GeometryCollection" ->
                      GeomBuilder_buildGeometryCollection(e, self)
                 [] OTHER -> Fail(e, "AttributeError")

\* --------------------------------------------- module-level functions
\* if cogr_geometry is not NULL: OGR_G_DestroyGeometry(cogr_geometry)
deleteOgrGeom(eng, cogr_geometry) ==
  IF cogr_geometry # NULL THEN OGR_G_DestroyGeometry(eng, cogr_geometry) ELSE eng

\* cdef geometry(void *geom)
geometry(eng, geom) == GeomBuilder_build(eng, geom)

\* faulty variant of geometryRT: the handle is deleted before it is decoded
geometryRT_deleteFirst(eng, tree) ==
  Call(OGRGeomBuilder_build(eng, tree),
       LAMBDA b : IF b.err # "" THEN Fail(b.eng, b.err)
                  ELSE GeomBuilder_build(deleteOgrGeom(b.eng, b.h), b.h))

\* encode, decode, delete the handle, return the decoded tree; an exception
\* of either builder leaves the function at once
geometryRT(eng, tree) ==
  Call(OGRGeomBuilder_build(eng, tree),
       LAMBDA b : IF b.err # "" THEN Fail(b.eng, b.err)
                  ELSE Then(GeomBuilder_build(b.eng, b.h),
                            LAMBDA result :
                              Built(deleteOgrGeom(result.eng, b.h), result.tree)))

\* A geometry as the engine holds it, before it has a handle:
\* [code, dim, pts, kids], kids being such geometries again.
RECURSIVE Populate(_, _, _)
\* fills handle h with the content g, allocating the handles of g's parts
Populate(eng, h, g) ==
  LET loop[i \in 0..Len(g.kids)] ==
        IF i = 0
        THEN [eng EXCEPT !.heap[h].dim = g.dim, !.heap[h].pts = g.pts]
        ELSE Call(loop[i - 1],
                  LAMBDA prev :
                    LET k == Len(prev.heap) + 1
                    IN Populate([prev EXCEPT !.heap = Append(@, [code |-> g.kids[i].code,
                                                                 dim |-> 2, pts |-> <<>>,
                                                                 kids |-> <<>>, parent |-> h,
                                                                 alive |-> TRUE]),
                                             !.heap[h].kids = Append(@, k)],
                                k, g.kids[i]))
  IN loop[Len(g.kids)]

\* OGR_G_ImportFromWkb: the engine reads the buffer into the handle; imp is
\* what it reads (the empty geometry when the import fails), and the code
\* ignores the status it returns
OGR_G_ImportFromWkb(eng, h, wkb, imp) ==
  [Populate(eng, h, imp) EXCEPT !.log = Append(@, Ev("importFromBinary", h, Len(wkb)))]

\* wkbtype = bytearray(wkb)[1]: an IndexError for a buffer of fewer than two
\* bytes; a NULL return is an error return ("except NULL")
createOgrGeomFromWKB(eng, wkb, imp) ==
  IF Len(wkb) < 2 THEN Raise(eng, "IndexError")
  ELSE Call(OGR_G_CreateGeometry(eng, <<0, wkb[2]>>),
            LAMBDA c : IF c.h # NULL
                       THEN Ok(OGR_G_ImportFromWkb(c.eng, c.h, wkb, imp), c.h)
                       ELSE Raise(c.eng, "SystemError"))

GeomBuilder_build_wkb(eng, wkb, imp) ==
  Call(createOgrGeomFromWKB(eng, wkb, imp),
       LAMBDA c : IF c.err # "" THEN Fail(c.eng, c.err)
                  ELSE Then(GeomBuilder_build(c.eng, c.h),
                            LAMBDA result :
                              Built(deleteOgrGeom(result.eng, c.h), result.tree)))

\* -------------------------------------------------------------- inputs
RECURSIVE SeqsOf(_, _)
\* the sequences over S of length at most n
SeqsOf(S, n) ==
  IF n = 0 THEN {<<>>}
  ELSE LET shorter == SeqsOf(S, n - 1)
       IN shorter \cup {Append(q, x) : q \in {r \in shorter : Len(r) = n - 1}, x \in S}

\* the coordinate of a components, each equal to v
Tuple(a, v) == [i \in 1..a |-> v]

Coords == {Tuple(a, v) : a \in 0..MaxArity, v \in 0..MaxCoord}

\* the coordinates of the sequences: pairs, triples, one coordinate too
\* short and one too long
LineCoords == {Tuple(a, v) : a \in {2, 3}, v \in 0..MaxCoord}
              \cup {Tuple(1, 0), Tuple(MaxArity, 0)}

Lines == SeqsOf(LineCoords, MaxPts)

TinyLines == {<<>>,
              <<Tuple(2, 0), Tuple(2, MaxCoord)>>,
              <<Tuple(3, 0), Tuple(3, 0)>>,
              <<Tuple(2, 0), Tuple(3, MaxCoord)>>,
              <<Tuple(1, 0)>>}

TinyPolygons == {<<>>,
                 << <<Tuple(2, 0), Tuple(2, MaxCoord)>> >>,
                 << <<Tuple(3, 0), Tuple(3, MaxCoord), Tuple(3, 0)>>, <<Tuple(2, 0)>> >>,
                 << <<Tuple(2, 0), Tuple(0, 0)>> >>}

TinyTrees == {Tree("Point", Tuple(2, 0)),
              Tree("Point", Tuple(3, MaxCoord)),
              Tree("Point", Tuple(1, 0)),
              Tree("LineString", <<Tuple(2, 0), Tuple(3, MaxCoord)>>),
              Tree("LinearRing", <<Tuple(2, 0), Tuple(2, MaxCoord)>>),
              Tree("Polygon", << <<Tuple(3, 0), Tuple(3, MaxCoord)>> >>),
              Tree("MultiPoint", <<Tuple(2, 0), Tuple(3, 0)>>),
              Tree("Unknown", <<>>),
              Collection(<<Tree("Point", Tuple(2, MaxCoord))>>)}

Trees ==
  {Tree("Point", c) : c \in Coords}
  \cup {Tree("LineString", l) : l \in Lines}
  \cup {Tree("LinearRing", l) : l \in Lines}
  \cup {Tree("Polygon", <<l>>) : l \in Lines}
  \cup {Tree("Polygon", p) : p \in SeqsOf(TinyLines, MaxParts)}
  \cup {Tree("MultiPoint", p) : p \in SeqsOf(LineCoords, MaxParts)}
  \cup {Tree("MultiLineString", p) : p \in SeqsOf(TinyLines, MaxParts)}
  \cup {Tree("MultiPolygon", p) : p \in SeqsOf(TinyPolygons, MaxParts)}
  \cup {Collection(p) : p \in SeqsOf(TinyTrees, MaxParts)}
  \cup {Tree("Unknown", <<>>), Tree("None", <<>>), Tree("3D Point", Tuple(3, 0))}

RECURSIVE NodeCount(_)
\* the geometry nodes of a tree: itself, and one per ring, point, line,
\* polygon and collection member below it
NodeCount(t) ==
  LET Sum(f, n) == LET s[i \in 0..n] == IF i = 0 THEN 0 ELSE s[i - 1] + f[i] IN s[n]
  IN CASE t[1] \in {"Polygon", "MultiPoint", "MultiLineString"} -> 1 + Len(t[2])
       [] t[1] = "MultiPolygon" ->
            1 + Sum([i \in 1..Len(t[2]) |-> 1 + Len(t[2][i])], Len(t[2]))
       [] t[1] = "GeometryCollection" ->
            1 + Sum([i \in 1..Len(t[2]) |-> NodeCount(t[2][i])], Len(t[2]))
       [] OTHER -> 1

Composite(t) == t[1] \in {"Polygon", "MultiPoint", "MultiLineString", "MultiPolygon",
                            "GeometryCollection"}

\* a call of the encoder: the tree, the engine's refused creation (0: none)
\* and whether the engine makes a parent 3D when a 3D part is attached
TreeArgs ==
  {[kind |-> "tree", tree |-> t, failAt |-> f, homog |-> b] :
     t \in Trees, f \in 0..MaxParts + 1, b \in BOOLEAN}

UsefulTreeArg(a) == a.failAt <= NodeCount(a.tree) /\ (a.homog => Composite(a.tree))

Points == {<<v, v, v>> : v \in 0..MaxCoord}

Geom(code, dim, pts, kids) == [code |-> code, dim |-> dim, pts |-> pts, kids |-> kids]

LeafGeoms ==
  {Geom(c, d, p, <<>>) : c \in {1, 2, 101}, d \in {2, 3}, p \in SeqsOf(Points, MaxPts)}
  \cup {Geom(c, 2, <<>>, <<>>) : c \in {0, 8, 100, 999}}

PartGeoms ==
  {Geom(c, d, p, <<>>) : c \in {1, 2}, d \in {2, 3}, p \in {<<>>, <<<<0, 0, MaxCoord>>>>}}
  \cup {Geom(101, 3, <<<<0, 0, 0>>, <<0, 0, 0>>>>, <<>>), Geom(999, 2, <<>>, <<>>)}

FlatGeoms ==
  {Geom(c, d, <<>>, k) : c \in {3, 4, 5, 7}, d \in {2, 3}, k \in SeqsOf(PartGeoms, MaxParts)}

NestedGeoms ==
  {Geom(c, d, <<>>, <<g>>) : c \in {6, 7}, d \in {2, 3},
                             g \in {f \in FlatGeoms : Len(f.kids) = 1}}

ExtGeoms == LeafGeoms \cup FlatGeoms \cup NestedGeoms

\* a handle of the engine passed to geometry(): NULL, or a geometry it holds
GeomArgs == {[kind |-> "geom", null |-> TRUE]}
            \cup {[kind |-> "geom", null |-> FALSE, g |-> g] : g \in ExtGeoms}

WkbTypeBytes == {0, 1, 2, 3, 4, 7, 8}

\* a buffer and what the engine's importer reads from it
WkbArgs ==
  {[kind |-> "wkb", wkb |-> w, imp |-> Geom(0, 2, <<>>, <<>>), failAt |-> 0] :
     w \in {<<>>, <<1>>}}
  \cup {[kind |-> "wkb", wkb |-> <<1, g.code>>, imp |-> g, failAt |-> f] :
          f \in {0, 1},
          g \in {Geom(t, 2, <<>>, <<>>) : t \in WkbTypeBytes}
                \cup {x \in ExtGeoms : x.code \in WkbTypeBytes}}

CodeArgs == {[kind |-> "code", code |-> <<b, c>>] :
               b \in {0, 1}, c \in 0..8 \cup {100, 101, 999}}

Names == {GEOMETRY_TYPES[k] : k \in DOMAIN GEOMETRY_TYPES}
         \cup {"", "Curve", "point", "3D LinearRing"}

NameArgs == {[kind |-> "name", name |-> n] : n \in Names}

\* ------------------------------------------------------- state machine
\* arg is the call's input, pc the function called ("ready" before the call)
\* and out what it returned and the engine it left.
Init ==
  /\ pc = "ready"
  /\ arg \in {a \in TreeArgs : UsefulTreeArg(a)} \cup GeomArgs \cup WkbArgs
             \cup CodeArgs \cup NameArgs
  /\ out = [err |-> ""]

\* OGRGeomBuilder().build(geometry)
Encode ==
  /\ pc = "ready" /\ arg.kind = "tree"
  /\ pc' = "OGRGeomBuilder.build"
  /\ out' = OGRGeomBuilder_build(NewEngine(arg.failAt, arg.homog), arg.tree)
  /\ UNCHANGED arg

RoundTrip ==
  /\ pc = "ready" /\ arg.kind = "tree"
  /\ pc' = "geometryRT"
  /\ out' = geometryRT(NewEngine(arg.failAt, arg.homog), arg.tree)
  /\ UNCHANGED arg

\* the engine as it is when it hands out a geometry of its own
EngineHolding(g) ==
  Populate([NewEngine(0, FALSE) EXCEPT
              !.heap = <<[code |-> g.code, dim |-> 2, pts |-> <<>>, kids |-> <<>>,
                          parent |-> NULL, alive |-> TRUE]>>], 1, g)

Decode ==
  /\ pc = "ready" /\ arg.kind = "geom"
  /\ pc' = "geometry"
  /\ out' = IF arg.null THEN geometry(NewEngine(0, FALSE), NULL)
            ELSE geometry(EngineHolding(arg.g), 1)
  /\ UNCHANGED arg

DecodeFromBinary ==
  /\ pc = "ready" /\ arg.kind = "wkb"
  /\ pc' = "GeomBuilder.build_wkb"
  /\ out' = GeomBuilder_build_wkb(NewEngine(arg.failAt, FALSE), arg.wkb, arg.imp)
  /\ UNCHANGED arg

NameLookup ==
  /\ pc = "ready" /\ arg.kind = "code"
  /\ pc' = "nameForCode"
  /\ out' = nameForCode(arg.code)
  /\ UNCHANGED arg

CodeLookup ==
  /\ pc = "ready" /\ arg.kind = "name"
  /\ pc' = "codeForName"
  /\ out' = codeForName(arg.name)
  /\ UNCHANGED arg

Next == Encode \/ RoundTrip \/ Decode \/ DecodeFromBinary \/ NameLookup \/ CodeLookup

Spec == Init /\ [][Next]_vars

\* -------------------------------------------------------------- claims
Handles(eng) == 1..Len(eng.heap)

Live(eng) == {h \in Handles(eng) : eng.heap[h].alive}

\* the positions of the log's calls of op
Calls(eng, op) == {i \in 1..Len(eng.log) : eng.log[i].op = op}

ReadOps == {"getGeometryType", "getPoints", "getChildCount", "getChildRef"}

EightNames == {"Point", "LineString", "LinearRing", "Polygon", "MultiPoint",
               "MultiLineString", "MultiPolygon", "GeometryCollection"}

\* C1: when build_wkb returns, by a result or by an exception, every handle
\* it created has been destroyed, and destroyed once.
C1_ScratchHandleDestroyed ==
  pc = "GeomBuilder.build_wkb" =>
    /\ Live(out.eng) = {}
    /\ Cardinality(Calls(out.eng, "destroy")) = Cardinality(Calls(out.eng, "create"))

\* C5: when the encoder fails, it returns no handle and every handle it
\* created has been released.
C5_FailedEncodeReleasesAll ==
  (pc = "OGRGeomBuilder.build" /\ out.err # "") =>
    /\ out.h = NULL
    /\ Live(out.eng) = {}

\* C6: after a successful encode the returned handle is the only one without
\* a parent, every other handle was attached once, to its parent, no handle
\* was destroyed, and there is one handle per geometry node of the tree.
C6_OwnershipAfterEncode ==
  (pc = "OGRGeomBuilder.build" /\ out.err = "") =>
    LET e == out.eng
        Attached(h) == {i \in Calls(e, "addChildOwned") : e.log[i].a = h}
    IN /\ out.h \in Handles(e)
       /\ {h \in Handles(e) : e.heap[h].parent = NULL} = {out.h}
       /\ Attached(out.h) = {}
       /\ \A h \in Handles(e) \ {out.h} :
            /\ Cardinality(Attached(h)) = 1
            /\ \A i \in Attached(h) : e.log[i].h = e.heap[h].parent
       /\ Calls(e, "destroy") = {}
       /\ Live(e) = Handles(e)
       /\ Len(e.heap) = NodeCount(arg.tree)
       /\ Cardinality(Calls(e, "create")) = NodeCount(arg.tree)

C6_Witness ==
  /\ pc = "OGRGeomBuilder.build" /\ out.err = ""
  /\ TypeOf(arg.tree) = "MultiPolygon"
  /\ Len(out.eng.heap) >= 5

\* C7: decoding destroys nothing; geometryRT and build_wkb destroy at most
\* once, only the parentless handle they created, and read no handle after
\* that.
C7_DestroyOnlyOwnAfterReads ==
  LET e == out.eng
  IN /\ pc = "geometry" => Calls(e, "destroy") = {}
     /\ pc \in {"geometryRT", "GeomBuilder.build_wkb"} =>
          /\ Cardinality(Calls(e, "destroy")) <= 1
          /\ \A d \in Calls(e, "destroy") :
               /\ e.log[d].h \in Handles(e)
               /\ e.heap[e.log[d].h].parent = NULL
               /\ \E c \in Calls(e, "create") : c < d /\ e.log[c].h = e.log[d].h
               /\ \A j \in 1..Len(e.log) : j > d => e.log[j].op \notin ReadOps

C7_Witness ==
  /\ pc = "geometryRT" /\ out.err = ""
  /\ Calls(out.eng, "getChildRef") # {}
  /\ Calls(out.eng, "destroy") # {}

\* C8: a base code 1..7 and its 3D-flagged code resolve to the same name, the
\* base code's; a code whose masked value is not a key of the table is a
\* KeyError, in the lookup and in a decode of a handle of that type.
C8_NameForCode ==
  /\ pc = "nameForCode" =>
       /\ arg.code[2] \in 1..7 =>
            out.err = "" /\ out.name = GEOMETRY_TYPES[<<0, arg.code[2]>>]
       /\ <<0, arg.code[2]>> \notin DOMAIN GEOMETRY_TYPES =>
            out.err = "KeyError" /\ out.name = ""
  /\ (pc = "geometry" /\ ~arg.null) =>
       /\ <<0, arg.g.code>> \notin DOMAIN GEOMETRY_TYPES => out.err = "KeyError"
       /\ (arg.g.code = 1 /\ arg.g.dim = 3 /\ arg.g.pts # <<>>) =>
            out.err = "" /\ TypeOf(out.tree) = "Point"

C8_Witness ==
  pc = "nameForCode" /\ arg.code = <<1, 7>> /\ out.name = "GeometryCollection"

\* C9 as stated: the lookup succeeds for exactly the eight constructible
\* names, with a base code that nameForCode resolves to the name.
C9_InverseOnEightOnly ==
  pc = "codeForName" =>
    IF arg.name \in EightNames
    THEN out.err = "" /\ out.code[1] = 0 /\ nameForCode(out.code).name = arg.name
    ELSE out.err # ""

\* C9 amended: the lookup succeeds for exactly the names of GEOMETRY_TYPES,
\* with the code the table gives that name; for the eight constructible names
\* it is a base code that nameForCode resolves to the name.
C9_InverseOfTable ==
  pc = "codeForName" =>
    IF \E k \in DOMAIN GEOMETRY_TYPES : GEOMETRY_TYPES[k] = arg.name
    THEN /\ out.err = ""
         /\ out.code \in DOMAIN GEOMETRY_TYPES
         /\ GEOMETRY_TYPES[out.code] = arg.name
         /\ arg.name \in EightNames =>
              out.code[1] = 0 /\ nameForCode(out.code).name = arg.name
    ELSE out.err = "KeyError"

C9_Witness ==
  pc = "codeForName" /\ arg.name = "3D Point" /\ out.err = "" /\ out.code = <<1, 1>>

\* the log's add-point calls, in order
AddCalls(eng) ==
  LET f[i \in 0..Len(eng.log)] ==
        IF i = 0 THEN <<>>
        ELSE IF eng.log[i].op \in {"addPoint2D", "addPoint3D"}
             THEN Append(f[i - 1], eng.log[i])
             ELSE f[i - 1]
  IN f[Len(eng.log)]

PointEncode ==
  pc = "OGRGeomBuilder.build" /\ TypeOf(arg.tree) = "Point" /\ arg.failAt = 0

\* C10 as stated: a Point whose coordinate has not two or three components is
\* rejected; two components are added by addPoint2D, three by addPoint3D.
C10_PointArityRejected ==
  PointEncode =>
    LET c == arg.tree[2]
    IN /\ Len(c) \notin {2, 3} => out.err # "" /\ out.h = NULL
       /\ Len(c) = 2 => out.err = "" /\ AddCalls(out.eng) = <<Ev("addPoint2D", out.h, c)>>
       /\ Len(c) = 3 => out.err = "" /\ AddCalls(out.eng) = <<Ev("addPoint3D", out.h, c)>>

\* C10 amended: a Point whose coordinate has fewer than two components is
\* rejected and nothing is added; two components are added by addPoint2D;
\* three or more by addPoint3D, which gets the first three.
C10_PointArity ==
  PointEncode =>
    LET c == arg.tree[2]
    IN /\ Len(c) < 2 => out.err # "" /\ out.h = NULL /\ AddCalls(out.eng) = <<>>
       /\ Len(c) = 2 => out.err = "" /\ AddCalls(out.eng) = <<Ev("addPoint2D", out.h, c)>>
       /\ Len(c) >= 3 =>
            /\ out.err = ""
            /\ AddCalls(out.eng) = <<Ev("addPoint3D", out.h, <<c[1], c[2], c[3]>>)>>

C10_Witness ==
  /\ PointEncode /\ Len(arg.tree[2]) = 4 /\ out.err = ""
  /\ Calls(out.eng, "addPoint3D") # {}

\* --------------------------------------------- trees, as the claims see them
\* the concatenation of a sequence of sequences
Concat(ss) ==
  LET f[i \in 0..Len(ss)] == IF i = 0 THEN <<>> ELSE f[i - 1] \o ss[i]
  IN f[Len(ss)]

RECURSIVE Supported(_)
Supported(t) ==
  /\ t[1] \in EightNames
  /\ t[1] = "GeometryCollection" => \A i \in 1..Len(t[2]) : Supported(t[2][i])

RECURSIVE LinesOf(_)
\* the coordinate sequences of a tree, in order: one per line and ring, and
\* one of a single coordinate per point
LinesOf(t) ==
  CASE t[1] = "Point" -> << <<t[2]>> >>
    [] t[1] \in {"LineString", "LinearRing"} -> <<t[2]>>
    [] t[1] = "MultiPoint" -> [i \in 1..Len(t[2]) |-> <<t[2][i]>>]
    [] t[1] \in {"Polygon", "MultiLineString"} -> t[2]
    [] t[1] = "MultiPolygon" -> Concat(t[2])
    [] t[1] = "GeometryCollection" -> Concat([i \in 1..Len(t[2]) |-> LinesOf(t[2][i])])
    [] OTHER -> <<>>

RECURSIVE RingsOf(_)
\* the rings of a tree, in order
RingsOf(t) ==
  CASE t[1] = "LinearRing" -> <<t[2]>>
    [] t[1] = "Polygon" -> t[2]
    [] t[1] = "MultiPolygon" -> Concat(t[2])
    [] t[1] = "GeometryCollection" -> Concat([i \in 1..Len(t[2]) |-> RingsOf(t[2][i])])
    [] OTHER -> <<>>

AllCoords(t) == Concat(LinesOf(t))

\* every coordinate is a pair or a triple
CoordsOk(l) == \A i \in 1..Len(l) : Len(l[i]) \in {2, 3}

Closed(l) == Len(l) = 0 \/ l[1] = l[Len(l)]

NotClosed(l) == Len(l) >= 2 /\ l[1] # l[Len(l)]

\* the first and last coordinates differ in x or y
Apart(l) == Len(l) >= 2 /\ <<l[1][1], l[1][2]>> # <<l[Len(l)][1], l[Len(l)][2]>>

\* all coordinates of the sequence have as many components
Uniform(l) == \A i, j \in 1..Len(l) : Len(l[i]) = Len(l[j])

\* a tree of the data model: a supported type, coordinates of two or three
\* numbers
Valid(t) == Supported(t) /\ CoordsOk(AllCoords(t))

RingsClosed(t) == \A i \in 1..Len(RingsOf(t)) : Closed(RingsOf(t)[i])

UniformLines(t) == \A i \in 1..Len(LinesOf(t)) : Uniform(LinesOf(t)[i])

RoundTripOfValid ==
  pc = "geometryRT" /\ arg.failAt = 0 /\ Valid(arg.tree) /\ RingsClosed(arg.tree)

\* C2 as stated: the round trip of a valid tree whose rings are closed
\* returns the tree.
C2_RoundTripOfValid ==
  RoundTripOfValid => out.err = "" /\ out.tree = arg.tree

\* C2 amended: the round trip of a valid tree whose rings are closed and
\* whose coordinate sequences each hold coordinates of one arity returns the
\* tree.
C2_RoundTripOfUniform ==
  (RoundTripOfValid /\ UniformLines(arg.tree)) => out.err = "" /\ out.tree = arg.tree

C2_Witness ==
  /\ RoundTripOfValid /\ UniformLines(arg.tree)
  /\ TypeOf(arg.tree) = "GeometryCollection"
  /\ Len(arg.tree[2]) = 2
  /\ \E i \in 1..2 : TypeOf(arg.tree[2][i]) = "MultiPoint"
  /\ out.tree = arg.tree

RoundTripOfRings ==
  /\ pc = "geometryRT" /\ arg.failAt = 0 /\ Valid(arg.tree)
  /\ TypeOf(arg.tree) \in {"LinearRing", "Polygon"}

\* the tree decoded from the encoding of out.tree
Again == geometryRT(NewEngine(0, arg.homog), out.tree)

\* C3 as stated: a ring that is not closed (its first and last coordinates
\* differ in x or y) comes back as itself with its first coordinate appended,
\* a closed ring comes back no longer, and the round trip of the result is
\* the result.
C3_RingClosedByAppending ==
  RoundTripOfRings =>
    /\ out.err = ""
    /\ Len(RingsOf(out.tree)) = Len(RingsOf(arg.tree))
    /\ \A i \in 1..Len(RingsOf(arg.tree)) :
         LET r == RingsOf(arg.tree)[i]
             o == RingsOf(out.tree)[i]
         IN /\ Apart(r) => o = Append(r, r[1]) /\ o[1] = o[Len(o)]
            /\ Closed(r) => Len(o) = Len(r)
    /\ Again.err = "" /\ Again.tree = out.tree

\* C3 amended: every ring with a coordinate comes back with its first and
\* last coordinates equal; a ring of coordinates of one arity comes back as
\* itself, with its first coordinate appended when it is not closed; a closed
\* ring comes back no longer; the round trip of the result is the result.
C3_RingClosing ==
  RoundTripOfRings =>
    /\ out.err = ""
    /\ Len(RingsOf(out.tree)) = Len(RingsOf(arg.tree))
    /\ \A i \in 1..Len(RingsOf(arg.tree)) :
         LET r == RingsOf(arg.tree)[i]
             o == RingsOf(out.tree)[i]
         IN /\ Len(r) >= 1 => Len(o) >= 1 /\ o[1] = o[Len(o)]
            /\ (Uniform(r) /\ NotClosed(r)) => o = Append(r, r[1])
            /\ (Uniform(r) /\ Closed(r)) => o = r
            /\ Closed(r) => Len(o) = Len(r)
    /\ Again.err = "" /\ Again.tree = out.tree

C3_Witness ==
  /\ RoundTripOfRings /\ TypeOf(arg.tree) = "LinearRing"
  /\ Uniform(arg.tree[2]) /\ NotClosed(arg.tree[2])
  /\ Len(out.tree[2]) = Len(arg.tree[2]) + 1

\* the dimensions the handles of a geometry report: its own and its parts'
RECURSIVE Dims(_)
Dims(g) == {g.dim} \cup UNION {Dims(g.kids[i]) : i \in 1..Len(g.kids)}

RECURSIVE Canonical(_)
\* the parts of the geometry are of the kinds its own kind holds
Canonical(g) ==
  LET Kids(codes) == \A i \in 1..Len(g.kids) :
                        g.kids[i].code \in codes /\ Canonical(g.kids[i])
  IN CASE g.code \in {1, 2, 101} -> TRUE
       [] g.code = 3 -> Kids({2, 101})
       [] g.code = 4 -> Kids({1})
       [] g.code = 5 -> Kids({2})
       [] g.code = 6 -> Kids({3})
       [] g.code = 7 -> Kids({1, 2, 3, 4, 5, 6, 7, 101})
       [] OTHER -> FALSE

RECURSIVE Arities(_)
\* per coordinate the geometry holds, in order, 2 or 3 as the handle holding
\* it reports
Arities(g) ==
  IF g.code \in {1, 2, 101}
  THEN [i \in 1..(IF g.code = 1 /\ Len(g.pts) > 1 THEN 1 ELSE Len(g.pts)) |->
          IF g.dim > 2 THEN 3 ELSE 2]
  ELSE Concat([i \in 1..Len(g.kids) |-> Arities(g.kids[i])])

DecodeOfGeom == pc = "geometry" /\ ~arg.null /\ out.err = ""

\* C4 as stated: a decode of a handle that reports dimension 2 emits pairs
\* only, whatever its parts report.
C4_RootDimensionDecides ==
  (DecodeOfGeom /\ Canonical(arg.g) /\ arg.g.dim = 2) =>
    \A i \in 1..Len(AllCoords(out.tree)) : Len(AllCoords(out.tree)[i]) = 2

\* C4 amended: every coordinate is emitted with two components when the
\* handle it is read from reports dimension 2 and with three otherwise; so a
\* decode emits pairs only when every handle holding points reports 2.
C4_HandleDimensionDecides ==
  /\ pc \in {"geometry", "geometryRT", "GeomBuilder.build_wkb"} =>
       \A i \in Calls(out.eng, "getPoints") :
         \A k \in 1..Len(out.eng.log[i].a) :
           Len(out.eng.log[i].a[k]) =
             IF out.eng.heap[out.eng.log[i].h].dim > 2 THEN 3 ELSE 2
  /\ (DecodeOfGeom /\ Canonical(arg.g)) =>
       /\ [i \in 1..Len(AllCoords(out.tree)) |-> Len(AllCoords(out.tree)[i])]
            = Arities(arg.g)
       /\ Dims(arg.g) = {2} =>
            \A i \in 1..Len(AllCoords(out.tree)) : Len(AllCoords(out.tree)[i]) = 2

C4_Witness ==
  /\ DecodeOfGeom /\ arg.g.code = 4 /\ arg.g.dim = 2
  /\ Len(arg.g.kids) = 2
  /\ arg.g.kids[1].dim = 2 /\ arg.g.kids[2].dim = 3
  /\ Len(out.tree[2]) = 2
  /\ Len(out.tree[2][1]) = 2 /\ Len(out.tree[2][2]) = 3

====
